---- MODULE Spec2Model ----
(***************************************************************************)
(* The crawl decision pipeline of scraper.py: scraper(url, resp) with its  *)
(* helpers (can_fetch, is_trap, is_similar, is_valid, extract_next_links,  *)
(* track_unique_pages, update_word_counts, save_log), the fingerprint      *)
(* engine of simhash_basic.py and the tokenizer of tokenizer.py.           *)
(*                                                                         *)
(* Representation.  A character is a one-character string, a word a        *)
(* sequence of characters and a text the sequence of its whitespace-       *)
(* separated words (str.split, the tokenizer and the shingler all ignore   *)
(* the amount of whitespace between words).  A URL string is represented   *)
(* by its urlsplit: [scheme, netloc, path, query, fragment].  A 64-bit     *)
(* hash is the set of its set bit positions, a subset of 0..63.            *)
(***************************************************************************)
EXTENDS Integers, Sequences, FiniteSets, TLC

\* ------------------------------------------------------------------ bounds
\* Number of scraper() calls of one process that the model explores.
MaxCalls == 2
MaxLogCalls == 3
MaxConcCalls == 2

\* ------------------------------------------------------- program constants
MIN_WORD_COUNT == 50
MAX_PAGE_SIZE == 1048576
\* is_similar: "simhash_diff(page_hash, old_hash) < 5"
SIMILARITY_THRESHOLD == 5
\* make_features(input_str, length=3)
SHINGLE_LENGTH == 3
\* make_simhash(input_str, hash_size=64)
HASH_SIZE == 64

\* None of Python (a record, so that it compares with every value).
None == [none |-> TRUE]

\* ------------------------------------------------------------- characters
\* str.lower() on the characters the model's texts are written with.
Lower(c) ==
  CASE c = "B" -> "b"
    [] c = "C" -> "c"
    [] c = "D" -> "d"
    [] OTHER -> c

\* The regular-expression class \w: letters, digits and the underscore.
IsWordChar(c) == c \in {"a", "b", "c", "d", "B", "C", "D", "0", "1", "_"}

\* The regular-expression class [A-Za-z0-9] of the tokenizer.
IsAlnum(c) == c \in {"a", "b", "c", "d", "B", "C", "D", "0", "1"}

RECURSIVE Concat(_)
\* The concatenation of a sequence of sequences (by halves, which keeps the
\* evaluation shallow).
Concat(ss) ==
  IF ss = <<>> THEN <<>>
  ELSE IF Len(ss) = 1 THEN ss[1]
  ELSE LET h == Len(ss) \div 2
       IN  Concat(SubSeq(ss, 1, h)) \o Concat(SubSeq(ss, h + 1, Len(ss)))

MapSeq(Op(_), s) == [i \in 1..Len(s) |-> Op(s[i])]

\* ---------------------------------------------------------- simhash_basic
\* make_features: lower-case, delete every run of non-word characters (the
\* whitespace between words included), cut into overlapping shingles;
\* range(max(len - length + 1, 1)) yields one (short) shingle for a short
\* string.
make_features(input_str, length) ==
  LET lowered == MapSeq(Lower, Concat(input_str))
      out_str == SelectSeq(lowered, IsWordChar)
      n       == Len(out_str)
      count   == IF n - length + 1 > 1 THEN n - length + 1 ELSE 1
      upto(i) == IF i + length - 1 < n THEN i + length - 1 ELSE n
  IN  [i \in 1..count |-> SubSeq(out_str, i, upto(i))]

\* hash_feature: int(md5(feature).hexdigest(), 16) & (2^64 - 1), tabulated
\* for the shingles of the model's texts (the values are those of md5).
hash_feature(f) ==
  CASE
        f = <<>> ->
          {1, 2, 3, 4, 5, 6, 9, 14, 19, 20, 21, 22, 23, 26, 27, 29, 30, 31, 35, 36, 39, 40, 43, 55, 56, 59, 61, 62, 63}
     [] f = <<"a", "a", "a">> ->
          {3, 11, 12, 13, 14, 15, 16, 19, 21, 23, 26, 27, 28, 31, 33, 34, 35, 36, 37, 38, 40, 42, 44, 46, 47, 48, 49, 51, 52, 54, 55, 56, 57, 58, 61, 62}
     [] f = <<"a", "a", "b">> ->
          {2, 3, 4, 5, 10, 11, 12, 15, 17, 18, 20, 21, 23, 25, 27, 28, 33, 34, 35, 38, 39, 40, 41, 42, 47, 50, 51, 53, 55, 56, 58, 59, 60, 61}
     [] f = <<"a", "b", "b">> ->
          {2, 8, 12, 14, 18, 19, 21, 23, 25, 26, 27, 33, 36, 38, 39, 40, 42, 43, 46, 47, 49, 51, 52, 54, 57, 63}
     [] f = <<"b", "b", "b">> ->
          {0, 2, 3, 6, 7, 8, 10, 13, 14, 15, 17, 18, 19, 21, 22, 23, 25, 26, 32, 33, 35, 37, 40, 41, 43, 44, 45, 46, 47, 49, 50, 51, 54, 55, 60}
     [] f = <<"b", "b", "d">> ->
          {1, 5, 7, 11, 12, 13, 14, 15, 18, 21, 23, 24, 25, 27, 28, 32, 35, 37, 41, 42, 44, 47, 48, 49, 50, 51, 56, 57, 58, 59, 61}
     [] f = <<"b", "c", "b">> ->
          {0, 1, 2, 4, 10, 11, 12, 13, 14, 16, 17, 18, 19, 20, 21, 22, 24, 26, 28, 29, 30, 32, 34, 35, 36, 37, 39, 40, 46, 47, 50, 52, 53, 54, 55, 56, 57, 62}
     [] f = <<"b", "c", "c">> ->
          {0, 2, 4, 5, 8, 9, 10, 11, 12, 13, 14, 17, 19, 20, 21, 24, 25, 27, 28, 29, 30, 33, 35, 36, 37, 38, 43, 50, 51, 54, 56, 57, 58, 60, 61, 62, 63}
     [] f = <<"b", "c", "d">> ->
          {3, 6, 7, 10, 12, 13, 14, 15, 16, 18, 20, 22, 23, 24, 25, 27, 29, 31, 35, 37, 38, 39, 40, 42, 45, 46, 48, 49, 51, 52, 53, 55, 59}
     [] f = <<"b", "d", "b">> ->
          {0, 1, 2, 4, 5, 7, 9, 12, 18, 20, 21, 22, 24, 26, 27, 33, 38, 39, 41, 42, 43, 46, 50, 51, 53, 54, 55, 57, 60, 63}
     [] f = <<"b", "d", "c">> ->
          {1, 2, 3, 5, 6, 7, 8, 10, 14, 16, 18, 19, 21, 22, 23, 25, 26, 28, 29, 30, 32, 33, 35, 36, 42, 43, 45, 47, 48, 55, 58, 59, 62}
     [] f = <<"c", "b", "b">> ->
          {1, 2, 3, 8, 9, 12, 18, 19, 21, 22, 23, 24, 26, 28, 31, 33, 34, 35, 36, 37, 39, 40, 41, 42, 43, 44, 46, 49, 51, 52, 53, 55, 56, 57, 58, 60, 62, 63}
     [] f = <<"c", "b", "c">> ->
          {0, 1, 2, 3, 4, 5, 6, 7, 8, 11, 14, 15, 17, 19, 20, 21, 26, 28, 31, 33, 35, 41, 43, 44, 46, 47, 53, 55, 56, 57, 59, 61}
     [] f = <<"c", "b", "d">> ->
          {1, 2, 3, 7, 8, 9, 11, 12, 14, 16, 18, 21, 22, 23, 25, 26, 28, 30, 32, 34, 35, 39, 40, 43, 44, 47, 50, 52, 57, 60, 63}
     [] f = <<"c", "c", "b">> ->
          {0, 1, 2, 3, 4, 5, 6, 7, 8, 9, 10, 11, 12, 13, 14, 22, 23, 29, 35, 36, 37, 39, 41, 42, 45, 46, 47, 48, 49, 50, 51, 52, 53, 54, 56, 58, 60, 62}
     [] f = <<"c", "c", "c">> ->
          {0, 3, 4, 5, 6, 8, 10, 15, 16, 17, 18, 20, 22, 29, 30, 31, 34, 35, 37, 38, 39, 42, 46, 50, 52, 57, 58, 59, 60}
     [] f = <<"c", "c", "d">> ->
          {0, 1, 2, 6, 8, 13, 14, 15, 16, 17, 19, 21, 22, 23, 24, 25, 26, 27, 28, 30, 31, 32, 33, 34, 35, 37, 46, 47, 48, 49, 58, 60}
     [] f = <<"c", "d", "b">> ->
          {1, 3, 4, 5, 6, 7, 9, 10, 13, 14, 15, 17, 19, 22, 23, 24, 25, 26, 27, 30, 31, 32, 34, 35, 36, 38, 39, 43, 50, 57, 58, 60}
     [] f = <<"c", "d", "c">> ->
          {1, 4, 5, 7, 8, 9, 10, 12, 15, 16, 17, 18, 19, 20, 23, 27, 28, 31, 32, 34, 35, 37, 38, 39, 40, 44, 46, 50, 51, 52, 53, 54, 55, 58, 60, 61, 63}
     [] f = <<"c", "d", "d">> ->
          {1, 3, 5, 7, 11, 13, 15, 16, 17, 18, 20, 21, 22, 23, 26, 27, 29, 32, 33, 34, 39, 40, 41, 42, 51, 52, 53, 54, 55, 56, 61, 62, 63}
     [] f = <<"d", "b", "b">> ->
          {3, 6, 7, 10, 11, 12, 14, 16, 19, 20, 22, 23, 27, 28, 30, 33, 36, 39, 40, 42, 44, 45, 47, 49, 51, 52, 54, 55, 56, 57, 59, 60, 61, 62}
     [] f = <<"d", "b", "c">> ->
          {3, 5, 6, 7, 8, 11, 12, 14, 16, 19, 20, 22, 23, 24, 26, 30, 32, 34, 36, 40, 41, 42, 44, 49, 51, 52, 53, 57, 59, 63}
     [] f = <<"d", "b", "d">> ->
          {1, 2, 3, 4, 5, 6, 8, 9, 10, 14, 16, 17, 18, 21, 23, 24, 25, 26, 27, 28, 29, 36, 37, 39, 40, 41, 43, 44, 45, 46, 47, 48, 49, 52, 53, 56, 57, 60, 61, 62}
     [] f = <<"d", "c", "b">> ->
          {2, 3, 4, 5, 6, 8, 9, 10, 11, 12, 13, 17, 19, 22, 23, 24, 26, 27, 29, 32, 34, 35, 37, 38, 40, 44, 45, 48, 49, 50, 52, 55, 56, 60, 61, 63}
     [] f = <<"d", "c", "c">> ->
          {0, 2, 7, 8, 10, 11, 12, 14, 16, 17, 18, 19, 20, 21, 22, 25, 26, 33, 35, 39, 40, 41, 43, 44, 47, 49, 51, 52, 58, 61, 62, 63}
     [] f = <<"d", "c", "d">> ->
          {0, 1, 2, 5, 13, 15, 17, 20, 21, 22, 24, 25, 29, 31, 32, 35, 38, 39, 40, 41, 42, 44, 45, 47, 49, 50, 51, 52, 54, 55, 57, 60}
     [] f = <<"d", "d", "b">> ->
          {2, 3, 4, 5, 6, 7, 8, 9, 10, 13, 14, 17, 19, 22, 23, 24, 27, 31, 34, 35, 37, 38, 39, 42, 43, 44, 45, 46, 47, 49, 50, 51, 53, 54, 56, 57, 58, 60, 63}
     [] f = <<"d", "d", "d">> ->
          {1, 3, 5, 7, 11, 12, 16, 17, 18, 20, 22, 23, 26, 27, 28, 31, 33, 35, 37, 38, 40, 42, 43, 45, 47, 48, 50, 52, 53, 55, 57, 59, 62}

RECURSIVE accumulate(_, _)
\* The loops of make_simhash for bit position i: v[i] += 1 if the bit is
\* set in the feature's hash, else v[i] -= 1 (summed by halves).
accumulate(features, i) ==
  IF features = <<>> THEN 0
  ELSE IF Len(features) = 1
    THEN (IF i \in hash_feature(features[1]) THEN 1 ELSE -1)
  ELSE LET h == Len(features) \div 2
       IN  accumulate(SubSeq(features, 1, h), i)
           + accumulate(SubSeq(features, h + 1, Len(features)), i)

\* make_simhash: bit i of the fingerprint is set iff v[i] > 0.
make_simhash(input_str) ==
  LET features == make_features(input_str, SHINGLE_LENGTH)
  IN  {i \in 0..(HASH_SIZE - 1) : accumulate(features, i) > 0}

\* simhash_diff: popcount of the XOR.
simhash_diff(hash_1, hash_2) ==
  Cardinality((hash_1 \ hash_2) \cup (hash_2 \ hash_1))

\* -------------------------------------------------------------- tokenizer
RECURSIVE findall(_, _)
\* re.findall("[A-Za-z0-9]+") over the characters of one word: the maximal
\* runs of alphanumeric characters; cur is the run being read.
findall(chars, cur) ==
  IF chars = <<>> THEN (IF cur = <<>> THEN <<>> ELSE <<cur>>)
  ELSE IF IsAlnum(Head(chars)) THEN findall(Tail(chars), Append(cur, Head(chars)))
  ELSE (IF cur = <<>> THEN <<>> ELSE <<cur>>) \o findall(Tail(chars), <<>>)

\* tokenize: the alphanumeric runs of the text, lower-cased.  Whitespace is
\* not alphanumeric, so no run spans two words.
tokenize(text) ==
  LET runs == Concat([i \in 1..Len(text) |-> findall(text[i], <<>>)])
  IN  [i \in 1..Len(runs) |-> MapSeq(Lower, runs[i])]

\* STOPWORDS, restricted to the words that can be written with the model's
\* characters (of the source's list only "a" can).
STOPWORDS == {<<"a">>}

\* ------------------------------------------------------------------ texts
Rep(w, n) == [i \in 1..n |-> w]

\* 50 words, none a stopword.
TextA ==
  <<
       <<"c">>, <<"c">>, <<"b">>, <<"c">>, <<"d">>, <<"c">>, <<"c">>, <<"c">>, <<"c">>, <<"c">>,
       <<"d">>, <<"b">>, <<"d">>, <<"b">>, <<"c">>, <<"b">>, <<"b">>, <<"d">>, <<"c">>, <<"d">>,
       <<"d">>, <<"d">>, <<"b">>, <<"c">>, <<"b">>, <<"d">>, <<"b">>, <<"d">>, <<"c">>, <<"c">>,
       <<"d">>, <<"b">>, <<"c">>, <<"c">>, <<"c">>, <<"d">>, <<"d">>, <<"b">>, <<"d">>, <<"c">>,
       <<"c">>, <<"d">>, <<"c">>, <<"b">>, <<"d">>, <<"b">>, <<"b">>, <<"d">>, <<"c">>, <<"d">>
  >>
\* TextA with another capitalisation and punctuation of its first word.
TextA2 == <<<<"C", ",">>>> \o Tail(TextA)
\* TextA with one more word: 51 words.
TextD == TextA \o <<<<"d">>>>
\* TextA without its last word: 49 words.
TextC == SubSeq(TextA, 1, 49)
\* 50 words of which 30 are stopwords.
TextB == Rep(<<"a">>, 30) \o Rep(<<"b">>, 20)
\* 10 whitespace-separated words that hold 60 tokens.
TextE == Rep(<<"b", "-", "c", "-", "d", "-", "b", "-", "c", "-", "d">>, 10)
\* A page without text.
TextZ == <<>>

\* ------------------------------------------------------------------- URLs
\* A path segment "stem.ext" (ext = "" when the segment has no dot); a path
\* is str.split("/") of the path string: abs tells whether it starts with
\* "/", segs are the segments after it ("/dir/" is <<dir, "">>).
Seg(stem, ext) == [stem |-> stem, ext |-> ext]
Path(abs, segs) == [abs |-> abs, segs |-> segs]
NoPath == Path(FALSE, <<>>)

\* urlsplit of a URL string.  netloc is the sequence of its dot-separated
\* labels, query the sequence of its "&"-separated "k=v" parameters.
Url(scheme, netloc, path, query, fragment) ==
  [scheme |-> scheme, netloc |-> netloc, path |-> path,
   query |-> query, fragment |-> fragment]

\* The empty string.
EmptyString == Url("", <<>>, NoPath, <<>>, "")

\* A netloc with an unbalanced "[": urlsplit raises ValueError
\* ("Invalid IPv6 URL") on it.
IsMalformed(u) == \E i \in 1..Len(u.netloc) : u.netloc[i] = "[bad"

\* urljoin(base, url) of urllib.parse, for references without "." and ".."
\* segments.  An empty reference yields the base; a reference with another
\* scheme, or with a netloc, is taken as it is (with the base's scheme when
\* it has none); an empty path keeps the base's path (and its query when the
\* reference has none); an absolute path replaces the base's path; a
\* relative path replaces the last segment of the base's path.
urljoin(base, url) ==
  IF url = EmptyString THEN base
  ELSE IF url.scheme # "" /\ url.scheme # base.scheme THEN url
  ELSE IF url.netloc # <<>> THEN [url EXCEPT !.scheme = base.scheme]
  ELSE IF url.path = NoPath
    THEN Url(base.scheme, base.netloc, base.path,
             IF url.query # <<>> THEN url.query ELSE base.query, url.fragment)
  ELSE IF url.path.abs
    THEN Url(base.scheme, base.netloc, url.path, url.query, url.fragment)
  ELSE Url(base.scheme, base.netloc,
           Path(TRUE, (IF base.path.segs = <<>> THEN <<>>
                       ELSE SubSeq(base.path.segs, 1, Len(base.path.segs) - 1))
                      \o url.path.segs),
           url.query, url.fragment)

\* (a variant that keeps the fragment)
urldefrag_keep(url) == url

\* urldefrag(url)[0]: the URL without its fragment.
urldefrag(url) == [url EXCEPT !.fragment = ""]

\* ------------------------------------------------------------- is_valid
\* str.lower() on the file extensions of the model's URLs.
LowerExt(e) ==
  CASE e = "PDF" -> "pdf"
    [] e = "Html" -> "html"
    [] OTHER -> e

\* The extensions of the regular expression of is_valid.
DENIED_EXTENSIONS ==
  {"css", "js", "bmp", "gif", "jpg", "jpeg", "png", "pdf", "ico",
   "tif", "tiff", "mid", "mp2", "mp3", "mp4", "wav", "avi", "mov", "mpeg",
   "m4v", "mkv", "ogg", "ogv", "ps", "eps", "tex", "ppt", "pptx", "doc",
   "docx", "xls", "xlsx", "data", "dat", "exe", "bz2", "tar", "msi", "bin",
   "7z", "dmg", "iso", "epub", "dll", "cnf", "tgz", "sha1", "thmx", "mso",
   "arff", "rtf", "jar", "csv", "rm", "smil", "wmv", "swf", "wma", "zip",
   "rar", "gz", "ical", "ppsx", "pps", "mol"}

\* allowed_domains of is_valid, each as the labels after its leading dot.
allowed_domains ==
  {<<"ics", "uci", "edu">>, <<"cs", "uci", "edu">>,
   <<"informatics", "uci", "edu">>, <<"stat", "uci", "edu">>}

\* netloc.endswith("." + domain): the labels of domain end the netloc and at
\* least one more label precedes them.
endswith(netloc, domain) ==
  /\ Len(netloc) > Len(domain)
  /\ SubSeq(netloc, Len(netloc) - Len(domain) + 1, Len(netloc)) = domain

\* The path ends in "." followed by a denied extension (on path.lower()).
has_denied_extension(path) ==
  /\ path.segs # <<>>
  /\ LowerExt(path.segs[Len(path.segs)].ext) \in DENIED_EXTENSIONS

\* is_valid for a URL that urlparse accepts (see IsMalformed).
is_valid(url) ==
  /\ url.scheme \in {"http", "https"}
  /\ \E domain \in allowed_domains : endswith(url.netloc, domain)
  /\ ~has_denied_extension(url.path)

\* --------------------------------------------------------------- is_trap
\* The first character of a query value is a digit (\d+ after "key=").
StartsWithDigit(v) == v \in {"3", "2024", "12"}

\* TRAP_PATTERNS of the form \?key= : the query starts with that parameter.
TRAP_FIRST_KEYS ==
  {"sort", "order", "date", "filter", "view", "session", "print", "lang",
   "mode", "tribe-bar-date", "tab_details", "tab_files",
   "share", "replytocom", "fbclid", "redirect", "attachment_id"}

\* TRAP_PATTERNS of the form \?key=\d : the query starts with that
\* parameter and its value with a digit.
TRAP_FIRST_NUMERIC_KEYS == {"page", "year", "month", "day", "rev"}

\* The parts of a URL string in which a literal pattern may occur.
Parts(url) ==
  {url.netloc[i] : i \in 1..Len(url.netloc)}
  \cup {url.path.segs[i].stem : i \in 1..Len(url.path.segs)}
  \cup {url.query[i].k : i \in 1..Len(url.query)}
  \cup {url.query[i].v : i \in 1..Len(url.query)}
  \cup {url.fragment}

\* is_trap: "doku.php" in the path, or one of TRAP_PATTERNS found in the URL.
is_trap(url) ==
  \/ \E i \in 1..Len(url.path.segs) :
        url.path.segs[i].stem = "doku" /\ url.path.segs[i].ext = "php"
  \/ /\ url.query # <<>>
     /\ \/ url.query[1].k \in TRAP_FIRST_KEYS
        \/ url.query[1].k = "do" /\ url.query[1].v = "media"
        \/ /\ url.query[1].k \in TRAP_FIRST_NUMERIC_KEYS
           /\ StartsWithDigit(url.query[1].v)
  \/ "calendar" \in Parts(url)
  \/ \E i \in 1..Len(url.query) :
        url.query[i].k \in {"outlook-ical", "utm_source"}
  \/ \E i \in 2..Len(url.query) :
        \/ url.query[i].k = "do" /\ url.query[i].v \in {"diff", "edit"}
        \/ url.query[i].k = "printable" /\ url.query[i].v = "yes"
  \/ /\ url.query = <<>> /\ url.fragment = "" /\ url.path.segs # <<>>
     /\ url.path.segs[Len(url.path.segs)].ext \in {"ical", "ics"}

\* ------------------------------------------------- urllib.robotparser
\* The fields of a RobotFileParser that can_fetch reads; rulelines are the
\* rule lines of the entry for user agent "*", last_checked tells whether
\* parse() has run (last_checked # 0).
NewRobotFileParser ==
  [disallow_all |-> FALSE, allow_all |-> FALSE, last_checked |-> FALSE,
   rulelines |-> <<>>]

RuleLine(path, allowance) == [path |-> path, allowance |-> allowance]

\* What fetching a robots.txt can come to: urlopen raises URLError (no
\* route, DNS, timeout while connecting); another exception is raised
\* (timeout while reading, undecodable bytes); the server answers with an
\* HTTP error status; the file is read and parsed.
NetURLError == [kind |-> "URLError"]
NetException == [kind |-> "Exception"]
NetHTTPError(code) == [kind |-> "HTTPError", code |-> code]
NetOk(rulelines) == [kind |-> "ok", rulelines |-> rulelines]

\* A robots.txt that disallows /private for every user agent.
RulesPrivate == <<RuleLine(<<Seg("private", "")>>, FALSE)>>

NetOutcomes ==
  {NetURLError, NetException, NetHTTPError(403), NetHTTPError(404),
   NetHTTPError(500), NetOk(<<>>), NetOk(RulesPrivate)}

\* Whether RobotFileParser.read() raises on this outcome.
read_raises(net) == net.kind \in {"URLError", "Exception"}

\* RobotFileParser.read(): HTTPError is handled inside (401/403 disallow
\* all, other 4xx allow all, anything else leaves the parser as it is);
\* on an exception nothing has been assigned.
read(parser, net) ==
  CASE net.kind = "HTTPError" ->
         IF net.code \in {401, 403} THEN [parser EXCEPT !.disallow_all = TRUE]
         ELSE IF net.code >= 400 /\ net.code < 500
           THEN [parser EXCEPT !.allow_all = TRUE]
         ELSE parser
    [] net.kind = "ok" ->
         [parser EXCEPT !.last_checked = TRUE, !.rulelines = net.rulelines]
    [] OTHER -> parser

\* RuleLine.applies_to: the URL's path starts with the rule's path.
applies_to(rule, url) ==
  /\ Len(rule.path) <= Len(url.path.segs)
  /\ SubSeq(url.path.segs, 1, Len(rule.path)) = rule.path

RECURSIVE allowance(_, _)
\* Entry.allowance: the first rule line that applies decides; none: allowed.
allowance(rulelines, url) ==
  IF rulelines = <<>> THEN TRUE
  ELSE IF applies_to(Head(rulelines), url) THEN Head(rulelines).allowance
  ELSE allowance(Tail(rulelines), url)

\* RobotFileParser.can_fetch("*", url).  A parser that has read nothing
\* (last_checked = 0) allows nothing.
parser_can_fetch(parser, url) ==
  IF parser.disallow_all THEN FALSE
  ELSE IF parser.allow_all THEN TRUE
  ELSE IF ~parser.last_checked THEN FALSE
  ELSE allowance(parser.rulelines, url)

\* ------------------------------------------------------------- can_fetch
\* The key "scheme://netloc/robots.txt" of the robots cache.
robots_key(url) == <<url.scheme, url.netloc>>

\* (a variant that stores the parser only after read() has returned)
can_fetch_store_after_read(url, parsers, net) ==
  LET domain == <<url.scheme, url.netloc>>
  IN  IF domain \notin DOMAIN parsers
      THEN IF read_raises(net)
           THEN [ret |-> TRUE, parsers |-> parsers,
                 fetched |-> TRUE, failed |-> TRUE]
           ELSE LET parser == read(NewRobotFileParser, net)
                IN  [ret |-> parser_can_fetch(parser, url),
                     parsers |-> (domain :> parser) @@ parsers,
                     fetched |-> TRUE, failed |-> FALSE]
      ELSE [ret |-> parser_can_fetch(parsers[domain], url),
            parsers |-> parsers, fetched |-> FALSE, failed |-> FALSE]

\* can_fetch(url) with the cache `parsers`, net being what the network does
\* if robots.txt is fetched.  Yields the value returned, the cache after
\* the call, whether a fetch was made and whether it failed.  The parser
\* is stored in the cache before read() is called.
can_fetch(url, parsers, net) ==
  LET domain == robots_key(url)
  IN  IF domain \notin DOMAIN parsers
      THEN IF read_raises(net)
           THEN [ret |-> TRUE,
                 parsers |-> (domain :> NewRobotFileParser) @@ parsers,
                 fetched |-> TRUE, failed |-> TRUE]
           ELSE LET parser == read(NewRobotFileParser, net)
                IN  [ret |-> parser_can_fetch(parser, url),
                     parsers |-> (domain :> parser) @@ parsers,
                     fetched |-> TRUE, failed |-> FALSE]
      ELSE [ret |-> parser_can_fetch(parsers[domain], url),
            parsers |-> parsers, fetched |-> FALSE, failed |-> FALSE]

\* ----------------------------------------------------------------- inputs
WWW_ICS == <<"www", "ics", "uci", "edu">>
CAL_ICS == <<"cal", "ics", "uci", "edu">>

\* https://www.ics.uci.edu/dir/
UrlDir ==
  Url("https", WWW_ICS, Path(TRUE, <<Seg("dir", ""), Seg("", "")>>), <<>>, "")
\* https://www.ics.uci.edu/x.html
UrlX == Url("https", WWW_ICS, Path(TRUE, <<Seg("x", "html")>>), <<>>, "")
\* https://www.ics.uci.edu/page?sort=asc&page=3
UrlTrap ==
  Url("https", WWW_ICS, Path(TRUE, <<Seg("page", "")>>),
      <<[k |-> "sort", v |-> "asc"], [k |-> "page", v |-> "3"]>>, "")
\* https://cal.ics.uci.edu/private/y
UrlPrivate ==
  Url("https", CAL_ICS, Path(TRUE, <<Seg("private", ""), Seg("y", "")>>),
      <<>>, "")
\* https://cal.ics.uci.edu/y
UrlCalY == Url("https", CAL_ICS, Path(TRUE, <<Seg("y", "")>>), <<>>, "")

\* The URLs scraper() and can_fetch() are called with.
PageURLs == {UrlDir, UrlX, UrlTrap, UrlPrivate}

\* href attributes.
HrefX == Url("", <<>>, Path(TRUE, <<Seg("x", "html")>>), <<>>, "")
HrefXTop == Url("", <<>>, Path(TRUE, <<Seg("x", "html")>>), <<>>, "top")
HrefTop == Url("", <<>>, NoPath, <<>>, "top")
HrefCss == Url("", <<>>, Path(FALSE, <<Seg("x", "css")>>), <<>>, "")
HrefNotIcs ==
  Url("https", <<"notics", "uci", "edu">>, Path(TRUE, <<Seg("a", "")>>),
      <<>>, "")
HrefPdf ==
  Url("https", <<"www", "cs", "uci", "edu">>, Path(TRUE, <<Seg("p", "PDF")>>),
      <<>>, "")
HrefMail == Url("mailto", <<>>, Path(FALSE, <<Seg("a@b", "")>>), <<>>, "")
HrefBare ==
  Url("https", <<"ics", "uci", "edu">>, Path(TRUE, <<Seg("", "")>>), <<>>, "")
\* http://[bad
HrefBad == Url("http", <<"[bad">>, NoPath, <<>>, "")

\* The anchors of a page, by name: soup.find_all("a", href=True) in order.
AnchorsOf(name) ==
  CASE name = "none" -> <<>>
    [] name = "example" -> <<HrefX, HrefCss>>
    [] name = "fragments" -> <<HrefXTop, HrefX, HrefTop>>
    [] name = "hosts" -> <<UrlCalY, HrefNotIcs, HrefBare, HrefPdf, HrefMail>>
    [] name = "bad" -> <<HrefX, HrefBad, UrlCalY>>

TextOf(name) ==
  CASE name = "A" -> TextA
    [] name = "A2" -> TextA2
    [] name = "D" -> TextD
    [] name = "C" -> TextC
    [] name = "B" -> TextB
    [] name = "E" -> TextE
    [] name = "Z" -> TextZ

TextNames == {"A", "A2", "D", "C", "B", "E", "Z"}

\* A response body: its length in bytes, and what BeautifulSoup extracts
\* from it (the text by name, the anchors by name).
Content(size, text, anchors) ==
  [size |-> size, text |-> text, anchors |-> anchors]

Contents ==
  {Content(2048, "A", "example"), Content(2048, "A2", "fragments"),
   Content(2048, "D", "hosts"), Content(2048, "B", "fragments"),
   Content(2048, "B", "hosts"), Content(2048, "A", "bad"),
   Content(2048, "C", "example"), Content(2048, "E", "hosts"),
   Content(2048, "Z", "none"),
   Content(MAX_PAGE_SIZE, "A", "example"),
   Content(MAX_PAGE_SIZE + 1, "A", "example")}

Statuses == {200, 300, 399, 404, 600, 699, 700}

\* Values of the Location header: absent, empty, relative, absolute.
Locations == {None, EmptyString, HrefX, UrlCalY}

RawResponse(location, content) ==
  [headers |-> [Location |-> location], content |-> content]

Response(status, raw_response) ==
  [status |-> status, raw_response |-> raw_response]

\* The responses of the fetch collaborator: any status without a raw
\* response; any status with a page that would be accepted, with or
\* without a Location header; a redirect status with any Location header;
\* status 200 with every content.
Responses ==
  {Response(s, None) : s \in Statuses}
  \cup {Response(s, RawResponse(l, Content(2048, "A", "example"))) :
          s \in Statuses, l \in {None, UrlCalY}}
  \cup {Response(s, RawResponse(l, Content(2048, "A", "example"))) :
          s \in {300, 399}, l \in Locations}
  \cup {Response(200, RawResponse(None, c)) : c \in Contents}

\* soup.get_text() and len(text.split()).
get_text(content) == TextOf(content.text)

\* make_simhash and the stopword-filtered tokens of the model's texts,
\* evaluated once.
SimhashOfText == [t \in TextNames |-> make_simhash(TextOf(t))]
TokensOfText ==
  [t \in TextNames |->
     SelectSeq(tokenize(TextOf(t)), LAMBDA word : word \notin STOPWORDS)]
\* (a variant that counts the stopword-filtered tokens)
WordCountOfText_tokens == [t \in TextNames |-> Len(TokensOfText[t])]
\* len(text_content.split()) of the model's texts.
WordCountOfText == [t \in TextNames |-> Len(TextOf(t))]

\* ------------------------------------------------------------------ state
VARIABLES
  visited_urls,     \* scraper.py:16  set of URL strings
  visited_hashes,   \* scraper.py:17  set of fingerprints
  subdomains,       \* scraper.py:19  netloc -> count
  word_counts,      \* scraper.py:20  word -> count
  longest_page,     \* scraper.py:21  (URL, word count)
  url_queue,        \* scraper.py:22  deque of URL strings
  robots_parsers,   \* scraper.py:23  robots key -> RobotFileParser
  log_file,         \* crawler_log.json: None, or what save_log wrote last
  calls,            \* number of calls made so far
  last,             \* the last call: its arguments and what it came to
  robots_fetches,   \* robots key -> number of fetches of its robots.txt
  robots_failed,    \* robots keys whose fetch raised
  accepted_hashes,  \* fingerprints of the pages accepted so far
  accepted_pages,   \* the pages accepted so far: their URL and text
  workers           \* concurrent scraper() calls: where each is, its locals

vars ==
  <<visited_urls, visited_hashes, subdomains, word_counts, longest_page,
    url_queue, robots_parsers, log_file, calls, last, robots_fetches,
    robots_failed, accepted_hashes, accepted_pages, workers>>

\* What a rejection must leave alone, visited_hashes apart.
stats == <<visited_urls, subdomains, word_counts, longest_page, url_queue,
           log_file, accepted_hashes, accepted_pages>>

EmptyMap == [x \in {} |-> 0]

\* The threads that call scraper() concurrently, and a thread between
\* calls.
Workers == {1, 2}
Idle == [pc |-> "idle", url |-> None, links |-> <<>>, i |-> 0]

Init ==
  /\ visited_urls = {}
  /\ visited_hashes = {}
  /\ subdomains = EmptyMap
  /\ word_counts = EmptyMap
  /\ longest_page = <<None, 0>>
  /\ url_queue = <<>>
  /\ robots_parsers = EmptyMap
  /\ log_file = None
  /\ calls = 0
  /\ last = [op |-> "none"]
  /\ robots_fetches = EmptyMap
  /\ robots_failed = {}
  /\ accepted_hashes = {}
  /\ accepted_pages = {}
  /\ workers = [w \in Workers |-> Idle]

\* ---------------------------------------------------------------- helpers
\* (a variant that takes only an identical fingerprint for a duplicate)
is_similar_exact(page_hash, hashes) ==
  IF page_hash \in hashes
  THEN [ret |-> TRUE, hashes |-> hashes]
  ELSE [ret |-> FALSE, hashes |-> hashes \cup {page_hash}]

\* (a variant that takes fewer than 3 differing bits for a duplicate)
is_similar_within_3(page_hash, hashes) ==
  IF \E old_hash \in hashes : simhash_diff(page_hash, old_hash) < 3
  THEN [ret |-> TRUE, hashes |-> hashes]
  ELSE [ret |-> FALSE, hashes |-> hashes \cup {page_hash}]

\* is_similar(text) on the fingerprint set `hashes`: TRUE when a stored
\* fingerprint is nearer than the threshold; otherwise the page's
\* fingerprint is stored and FALSE returned.
is_similar(page_hash, hashes) ==
  IF \E old_hash \in hashes :
       simhash_diff(page_hash, old_hash) < SIMILARITY_THRESHOLD
  THEN [ret |-> TRUE, hashes |-> hashes]
  ELSE [ret |-> FALSE, hashes |-> hashes \cup {page_hash}]

\* update_word_counts(tokens): the loop adds 1 to word_counts.get(word, 0)
\* for every occurrence of word in tokens.
update_word_counts(tokens, counts) ==
  LET words == {tokens[k] : k \in 1..Len(tokens)}
      occurrences(word) == Cardinality({k \in 1..Len(tokens) : tokens[k] = word})
  IN  [word \in DOMAIN counts \cup words |->
         (IF word \in DOMAIN counts THEN counts[word] ELSE 0)
         + occurrences(word)]

\* track_unique_pages(url)
track_unique_pages(url, visited, subs) ==
  LET domain == url.netloc
  IN  IF url \notin visited
      THEN [visited |-> visited \cup {url},
            subdomains |->
              IF domain \in DOMAIN subs
              THEN [subs EXCEPT ![domain] = @ + 1]
              ELSE (domain :> 1) @@ subs]
      ELSE [visited |-> visited, subdomains |-> subs]

\* extract_next_links(url, soup) when no href is malformed.
extract_next_links(url, hrefs) ==
  [i \in 1..Len(hrefs) |-> urldefrag(urljoin(url, hrefs[i]))]

\* urljoin raises ValueError on the first malformed href.
extract_raises(hrefs) == \E i \in 1..Len(hrefs) : IsMalformed(hrefs[i])

\* (a variant that also replaces the record on a tie)
update_longest_page_on_tie(url, word_count, longest) ==
  IF word_count >= longest[2] THEN <<url, word_count>> ELSE longest

\* Lines 149..150: the record is replaced when the page's word count
\* exceeds the recorded one.
update_longest_page(url, word_count, longest) ==
  IF word_count > longest[2] THEN <<url, word_count>> ELSE longest

RECURSIVE enqueue(_, _, _)
\* The loop of scraper() over valid_links.
enqueue(links, visited, queue) ==
  IF links = <<>> THEN [visited |-> visited, queue |-> queue]
  ELSE LET link == Head(links)
       IN  IF link \notin visited
           THEN enqueue(Tail(links), visited \cup {link}, Append(queue, link))
           ELSE enqueue(Tail(links), visited, queue)

\* ------------------------------------------------------------------- JSON
\* What a JSON text denotes: null, a string, a number, an array of values,
\* or an object (its members by key).
JNull == [json |-> "null"]
JString(value) == [json |-> "string", value |-> value]
JNumber(value) == [json |-> "number", value |-> value]
JArray(items) == [json |-> "array", items |-> items]
JObject(members) == [json |-> "object", members |-> members]

\* A file whose text is no JSON value (cut short, say).
InvalidJSON == [json |-> "invalid"]

\* A Python list, apart from a tuple (a TLA+ sequence).
List(items) == [list |-> items]

RECURSIVE list(_)
\* list(a_set): its elements in the order the set hands them out.
list(elements) ==
  IF elements = {} THEN List(<<>>)
  ELSE LET first == CHOOSE element \in elements : TRUE
       IN  List(<<first>> \o list(elements \ {first}).list)

\* json.dump of a str, of an int, of None-or-str, of a list or tuple (an
\* array either way), and of a dict from str to int.
dump_str(value) == JString(value)
dump_int(value) == JNumber(value)
dump_optional_str(value) == IF value = None THEN JNull ELSE JString(value)
dump_array(items) == JArray(items)
dump_counts(dict) == JObject([key \in DOMAIN dict |-> dump_int(dict[key])])

RECURSIVE json_load(_)
\* json.load of a valid text: null is None, an array a list, an object a
\* dict.
json_load(value) ==
  CASE value.json = "null" -> None
    [] value.json = "string" -> value.value
    [] value.json = "number" -> value.value
    [] value.json = "array" ->
         List([i \in DOMAIN value.items |-> json_load(value.items[i])])
    [] value.json = "object" ->
         [key \in DOMAIN value.members |-> json_load(value.members[key])]

\* set(a_list), tuple(a_list) and dict.update(other).
set(a_list) == {a_list.list[i] : i \in DOMAIN a_list.list}
tuple(a_list) == a_list.list
update(dict, other) ==
  [key \in DOMAIN dict \cup DOMAIN other |->
     IF key \in DOMAIN other THEN other[key] ELSE dict[key]]

\* save_log(): the text json.dump writes to crawler_log.json.
save_log(visited, counts, subs, longest) ==
  LET urls == list(visited).list
  IN  JObject(
        [visited_urls |-> dump_array([i \in DOMAIN urls |-> dump_str(urls[i])]),
         word_counts |-> dump_counts(counts),
         subdomains |-> dump_counts(subs),
         longest_page |-> dump_array(<<dump_optional_str(longest[1]),
                                       dump_int(longest[2])>>)])

\* The four globals load_log assigns, as one record.
Globals(visited, counts, subs, longest) ==
  [visited_urls |-> visited, word_counts |-> counts, subdomains |-> subs,
   longest_page |-> longest]

\* (a variant that loads the first two keys and the last, not subdomains)
load_log_without_subdomains(globals, file) ==
  IF file = None \/ file = InvalidJSON THEN globals
  ELSE LET log_data == json_load(file)
           has(key) == key \in DOMAIN log_data
           g1 == IF has("visited_urls")
                 THEN [globals EXCEPT !.visited_urls = set(log_data.visited_urls)]
                 ELSE globals
           g2 == IF has("word_counts")
                 THEN [g1 EXCEPT !.word_counts = update(@, log_data.word_counts)]
                 ELSE g1
           g4 == IF has("longest_page")
                 THEN [g2 EXCEPT !.longest_page = tuple(log_data.longest_page)]
                 ELSE g2
       IN  IF ~has("visited_urls") THEN globals
           ELSE IF ~has("word_counts") THEN g1
           ELSE g4

\* load_log() on the globals and the file (None: there is no file).  A
\* missing file, a text json.load rejects and a missing key raise inside
\* the try and are caught; the assignments before the raise stay.
load_log(globals, file) ==
  IF file = None \/ file = InvalidJSON THEN globals
  ELSE LET log_data == json_load(file)
           has(key) == key \in DOMAIN log_data
           g1 == IF has("visited_urls")
                 THEN [globals EXCEPT !.visited_urls = set(log_data.visited_urls)]
                 ELSE globals
           g2 == IF has("word_counts")
                 THEN [g1 EXCEPT !.word_counts = update(@, log_data.word_counts)]
                 ELSE g1
           g3 == IF has("subdomains")
                 THEN [g2 EXCEPT !.subdomains = update(@, log_data.subdomains)]
                 ELSE g2
           g4 == IF has("longest_page")
                 THEN [g3 EXCEPT !.longest_page = tuple(log_data.longest_page)]
                 ELSE g3
       IN  IF ~has("visited_urls") THEN globals
           ELSE IF ~has("word_counts") THEN g1
           ELSE IF ~has("subdomains") THEN g2
           ELSE g4

\* ---------------------------------------------------------------- scraper
Return(url, resp, outcome, raised, result) ==
  last' = [op |-> "scraper", url |-> url, resp |-> resp, outcome |-> outcome,
           raised |-> raised, result |-> result]

\* (a variant that has marked the URL visited before the filters)
Reject_marks_visited(url, resp, outcome) ==
  /\ visited_urls' = visited_urls \cup {url}
  /\ UNCHANGED <<subdomains, word_counts, longest_page, url_queue, log_file,
                 accepted_hashes, accepted_pages>>
  /\ UNCHANGED visited_hashes
  /\ Return(url, resp, outcome, FALSE, <<>>)

\* A "return []" that has changed nothing but the robots cache.
Reject(url, resp, outcome) ==
  /\ UNCHANGED stats
  /\ UNCHANGED visited_hashes
  /\ Return(url, resp, outcome, FALSE, <<>>)

\* (a variant that resolves the Location header against the URL)
redirect_target_joined(url, new_url) == <<urldefrag(urljoin(url, new_url))>>

\* "return [new_url]": the Location header as it came.
redirect_target(url, new_url) == <<new_url>>

\* Lines 128..167: the page has passed the status, size and trap filters.
Process(url, resp) ==
  LET content    == resp.raw_response.content
      page_hash  == SimhashOfText[content.text]
      similar    == is_similar(page_hash, visited_hashes)
      word_count == WordCountOfText[content.text]
      tokens     == TokensOfText[content.text]
      tracked    == track_unique_pages(url, visited_urls, subdomains)
      hrefs      == AnchorsOf(content.anchors)
      links      == extract_next_links(url, hrefs)
      valid_links == SelectSeq(links, is_valid)
      queued     == enqueue(valid_links, tracked.visited, url_queue)
      counts     == update_word_counts(tokens, word_counts)
      longest    == update_longest_page(url, word_count, longest_page)
  IN  /\ visited_hashes' = similar.hashes
      /\ IF similar.ret
         THEN UNCHANGED stats /\ Return(url, resp, "duplicate", FALSE, <<>>)
         ELSE IF word_count < MIN_WORD_COUNT
         THEN UNCHANGED stats /\ Return(url, resp, "low_content", FALSE, <<>>)
         ELSE /\ word_counts' = counts
              /\ longest_page' = longest
              /\ subdomains' = tracked.subdomains
              /\ accepted_hashes' = accepted_hashes \cup {page_hash}
              /\ accepted_pages' =
                   accepted_pages \cup {[url |-> url, text |-> content.text]}
              /\ IF extract_raises(hrefs)
                 THEN /\ visited_urls' = tracked.visited
                      /\ UNCHANGED <<url_queue, log_file>>
                      /\ Return(url, resp, "accepted", TRUE, <<>>)
                 ELSE /\ visited_urls' = queued.visited
                      /\ url_queue' = queued.queue
                      /\ log_file' = save_log(queued.visited, counts,
                                              tracked.subdomains, longest)
                      /\ Return(url, resp, "accepted", FALSE,
                                valid_links)

\* The robots cache and its bookkeeping after can_fetch came to `cf`.
Fetched(url, cf) ==
  LET domain == robots_key(url)
  IN  /\ robots_parsers' = cf.parsers
      /\ robots_fetches' =
           IF cf.fetched
           THEN (domain :> (IF domain \in DOMAIN robots_fetches
                            THEN robots_fetches[domain] ELSE 0) + 1)
                @@ robots_fetches
           ELSE robots_fetches
      /\ robots_failed' =
           IF cf.failed THEN robots_failed \cup {domain} ELSE robots_failed

\* scraper(url, resp); net is what the network does if robots.txt is fetched.
Scraper(url, resp, net) ==
  LET cf     == can_fetch(url, robots_parsers, net)
      status == resp.status
      raw    == resp.raw_response
  IN  /\ last.op = "none"
      /\ calls' = calls + 1
      /\ UNCHANGED workers
      /\ Fetched(url, cf)
      /\ IF ~cf.ret THEN Reject(url, resp, "robots")
         ELSE IF 600 <= status /\ status < 700
           THEN Reject(url, resp, "status_6xx")
         ELSE IF 300 <= status /\ status <= 399
           THEN IF raw = None
                THEN \* None.headers: AttributeError
                     /\ UNCHANGED stats
                     /\ UNCHANGED visited_hashes
                     /\ Return(url, resp, "redirect", TRUE, <<>>)
                ELSE IF raw.headers.Location \notin {None, EmptyString}
                THEN /\ UNCHANGED stats
                     /\ UNCHANGED visited_hashes
                     /\ Return(url, resp, "redirect", FALSE,
                               redirect_target(url, raw.headers.Location))
                ELSE Reject(url, resp, "redirect_without_location")
         ELSE IF status # 200 \/ raw = None
           THEN Reject(url, resp, "status")
         ELSE IF raw.content.size > MAX_PAGE_SIZE
           THEN Reject(url, resp, "large")
         ELSE IF is_trap(url) THEN Reject(url, resp, "trap")
         ELSE Process(url, resp)

\* A call of can_fetch(url) on its own.
CanFetch(url, net) ==
  LET cf == can_fetch(url, robots_parsers, net)
  IN  /\ last.op = "none"
      /\ calls' = calls + 1
      /\ Fetched(url, cf)
      /\ UNCHANGED stats
      /\ UNCHANGED <<visited_hashes, workers>>
      /\ last' = [op |-> "can_fetch", url |-> url, ret |-> cf.ret,
                  fetched |-> cf.fetched]

\* The caller has taken what the call returned (or caught what it raised)
\* and goes on to its next call.
Resume ==
  /\ last.op # "none"
  /\ last' = [op |-> "none"]
  /\ UNCHANGED <<visited_urls, visited_hashes, subdomains, word_counts,
                 longest_page, url_queue, robots_parsers, log_file, calls,
                 robots_fetches, robots_failed, accepted_hashes,
                 accepted_pages, workers>>

\* What the network can do when `url` is looked up: it is asked only when
\* the key is not cached.
NetFor(url, outcomes) ==
  IF robots_key(url) \in DOMAIN robots_parsers THEN {NetOk(<<>>)}
  ELSE outcomes

ScraperCall ==
  /\ calls < MaxCalls
  /\ \E url \in PageURLs, resp \in Responses :
       \E net \in NetFor(url, {NetURLError, NetOk(RulesPrivate)}) :
         Scraper(url, resp, net)

CanFetchCall ==
  /\ calls < MaxCalls
  /\ \E url \in PageURLs : \E net \in NetFor(url, NetOutcomes) :
       CanFetch(url, net)

\* Any sequence of scraper() calls of one process.
Next == ScraperCall \/ Resume

Spec == Init /\ [][Next]_vars

\* Any sequence of can_fetch() calls of one process.
NextRobots == CanFetchCall \/ Resume

SpecRobots == Init /\ [][NextRobots]_vars

\* ------------------------------------------------------------- checkpoint
\* The globals load_log assigns, as they are now.
CurrentGlobals ==
  Globals(visited_urls, word_counts, subdomains, longest_page)

\* The globals as the module sets them when it is imported (lines 16..21).
FreshGlobals == Globals({}, EmptyMap, EmptyMap, <<None, 0>>)

\* The keys save_log writes.
LogKeys == {"visited_urls", "word_counts", "subdomains", "longest_page"}

\* The file is a checkpoint as save_log writes it, with all its keys.
IsComplete(file) ==
  /\ file # None
  /\ file # InvalidJSON
  /\ DOMAIN file.members = LogKeys

\* The file without the members outside `keys`.
Keep(file, keys) == JObject([key \in keys |-> file.members[key]])

\* What is left of a checkpoint that was cut short or lost members: no
\* JSON at all, or the object without one of its keys, or without any.
Damaged(file) ==
  {InvalidJSON, Keep(file, {})}
  \cup {Keep(file, LogKeys \ {key}) : key \in LogKeys}

\* A call of load_log().
LoadLog ==
  LET loaded == load_log(CurrentGlobals, log_file)
  IN  /\ last.op = "none"
      /\ calls' = calls + 1
      /\ visited_urls' = loaded.visited_urls
      /\ word_counts' = loaded.word_counts
      /\ subdomains' = loaded.subdomains
      /\ longest_page' = loaded.longest_page
      /\ last' = [op |-> "load_log", raised |-> FALSE,
                  fresh |-> (CurrentGlobals = FreshGlobals)]
      /\ UNCHANGED <<visited_hashes, url_queue, robots_parsers, log_file,
                     robots_fetches, robots_failed, accepted_hashes,
                     accepted_pages, workers>>

\* The process ends and a new one imports the module: every global is as
\* lines 16..23 set it; crawler_log.json stays.
Restart ==
  /\ last.op = "none"
  /\ log_file # None
  /\ visited_urls' = {}
  /\ visited_hashes' = {}
  /\ subdomains' = EmptyMap
  /\ word_counts' = EmptyMap
  /\ longest_page' = <<None, 0>>
  /\ url_queue' = <<>>
  /\ robots_parsers' = EmptyMap
  /\ robots_fetches' = EmptyMap
  /\ robots_failed' = {}
  /\ accepted_hashes' = {}
  /\ accepted_pages' = {}
  /\ UNCHANGED <<log_file, calls, last, workers>>

\* Something outside the crawler leaves crawler_log.json damaged.
Damage ==
  /\ last.op = "none"
  /\ IsComplete(log_file)
  /\ log_file' \in Damaged(log_file)
  /\ UNCHANGED <<visited_urls, visited_hashes, subdomains, word_counts,
                 longest_page, url_queue, robots_parsers, calls, last,
                 robots_fetches, robots_failed, accepted_hashes,
                 accepted_pages, workers>>

\* The pages of the checkpoint runs.
LogURLs == {UrlDir, UrlX}
LogResponses ==
  {Response(200, RawResponse(None, c)) :
     c \in {Content(2048, "A", "example"), Content(2048, "B", "fragments"),
            Content(2048, "A", "bad"), Content(2048, "Z", "none")}}

ScraperLogCall ==
  /\ calls < MaxLogCalls
  /\ \E url \in LogURLs, resp \in LogResponses :
       \E net \in NetFor(url, {NetOk(RulesPrivate)}) :
         Scraper(url, resp, net)

LoadLogCall == calls < MaxLogCalls /\ LoadLog

\* scraper() and load_log() calls of a process and of those started after
\* it, over a checkpoint file that can get damaged.
NextLog == ScraperLogCall \/ LoadLogCall \/ Resume \/ Restart \/ Damage

SpecLog == Init /\ [][NextLog]_vars

\* Up to MaxLogCalls scraper() calls of one process on those pages.
NextPages == ScraperLogCall \/ Resume

SpecPages == Init /\ [][NextPages]_vars

\* ------------------------------------------------------------ concurrency
\* scraper() called from several threads, which share the module's
\* globals.  A thread runs lines 97..157 of its call in one step and the
\* loop of lines 160..163 statement by statement; the others can run
\* between any two of these steps.

\* Lines 97..157 of a call on a page (status 200, with a body, no
\* malformed href): the filters, the statistics, and valid_links.
ScraperBegin(w, url, resp, net) ==
  LET cf         == can_fetch(url, robots_parsers, net)
      content    == resp.raw_response.content
      page_hash  == SimhashOfText[content.text]
      similar    == is_similar(page_hash, visited_hashes)
      word_count == WordCountOfText[content.text]
      tokens     == TokensOfText[content.text]
      tracked    == track_unique_pages(url, visited_urls, subdomains)
      hrefs      == AnchorsOf(content.anchors)
      valid_links == SelectSeq(extract_next_links(url, hrefs), is_valid)
  IN  /\ workers[w].pc = "idle"
      /\ resp.status = 200 /\ resp.raw_response # None
      /\ ~extract_raises(hrefs)
      /\ calls' = calls + 1
      /\ Fetched(url, cf)
      /\ UNCHANGED <<url_queue, log_file, last>>
      /\ IF ~cf.ret \/ content.size > MAX_PAGE_SIZE \/ is_trap(url)
         THEN UNCHANGED <<visited_hashes, visited_urls, subdomains,
                          word_counts, longest_page, accepted_hashes,
                          accepted_pages, workers>>
         ELSE /\ visited_hashes' = similar.hashes
              /\ IF similar.ret \/ word_count < MIN_WORD_COUNT
                 THEN UNCHANGED <<visited_urls, subdomains, word_counts,
                                  longest_page, accepted_hashes,
                                  accepted_pages, workers>>
                 ELSE /\ word_counts' = update_word_counts(tokens, word_counts)
                      /\ longest_page' =
                           update_longest_page(url, word_count, longest_page)
                      /\ visited_urls' = tracked.visited
                      /\ subdomains' = tracked.subdomains
                      /\ accepted_hashes' = accepted_hashes \cup {page_hash}
                      /\ accepted_pages' =
                           accepted_pages
                             \cup {[url |-> url, text |-> content.text]}
                      /\ workers' =
                           [workers EXCEPT ![w] =
                              [pc |-> "test", url |-> url,
                               links |-> valid_links, i |-> 1]]

\* What the steps of the loop leave alone.
loop_unchanged ==
  <<visited_hashes, subdomains, word_counts, longest_page, robots_parsers,
    calls, last, robots_fetches, robots_failed, accepted_hashes,
    accepted_pages>>

\* Lines 160..161: the next link, and "if link not in visited_urls".
LoopTest(w) ==
  LET self == workers[w]
  IN  /\ self.pc = "test"
      /\ workers' =
           [workers EXCEPT ![w] =
              IF self.i > Len(self.links) THEN [self EXCEPT !.pc = "save"]
              ELSE IF self.links[self.i] \notin visited_urls
              THEN [self EXCEPT !.pc = "add"]
              ELSE [self EXCEPT !.i = @ + 1]]
      /\ UNCHANGED <<visited_urls, url_queue, log_file>>
      /\ UNCHANGED loop_unchanged

\* Line 162: visited_urls.add(link).
LoopAdd(w) ==
  LET self == workers[w]
  IN  /\ self.pc = "add"
      /\ visited_urls' = visited_urls \cup {self.links[self.i]}
      /\ workers' = [workers EXCEPT ![w] = [self EXCEPT !.pc = "append"]]
      /\ UNCHANGED <<url_queue, log_file>>
      /\ UNCHANGED loop_unchanged

\* Line 163: url_queue.append(link).
LoopAppend(w) ==
  LET self == workers[w]
  IN  /\ self.pc = "append"
      /\ url_queue' = Append(url_queue, self.links[self.i])
      /\ workers' =
           [workers EXCEPT ![w] = [self EXCEPT !.pc = "test", !.i = @ + 1]]
      /\ UNCHANGED <<visited_urls, log_file>>
      /\ UNCHANGED loop_unchanged

\* Lines 166..167: save_log() and the return.
ScraperEnd(w) ==
  /\ workers[w].pc = "save"
  /\ log_file' = save_log(visited_urls, word_counts, subdomains, longest_page)
  /\ workers' = [workers EXCEPT ![w] = Idle]
  /\ UNCHANGED <<visited_urls, url_queue>>
  /\ UNCHANGED loop_unchanged

\* The pages of the concurrent runs: two of them link to the same URLs.
ConcURLs == {UrlDir, UrlX}
ConcResponses ==
  {Response(200, RawResponse(None, c)) :
     c \in {Content(2048, "A", "hosts"), Content(2048, "B", "hosts"),
            Content(2048, "B", "fragments")}}

ScraperBeginCall ==
  /\ calls < MaxConcCalls
  /\ \E w \in Workers, url \in ConcURLs, resp \in ConcResponses :
       \E net \in NetFor(url, {NetOk(RulesPrivate)}) :
         ScraperBegin(w, url, resp, net)

LoopTestStep == \E w \in Workers : LoopTest(w)
LoopAddStep == \E w \in Workers : LoopAdd(w)
LoopAppendStep == \E w \in Workers : LoopAppend(w)
ScraperEndStep == \E w \in Workers : ScraperEnd(w)

NextConc ==
  \/ ScraperBeginCall
  \/ LoopTestStep
  \/ LoopAddStep
  \/ LoopAppendStep
  \/ ScraperEndStep

SpecConc == Init /\ [][NextConc]_vars

\* ----------------------------------------------------------------- claims
\* The last call was scraper() and it returned (raised nothing).
Returned == last.op = "scraper" /\ ~last.raised

\* The response is a page: status 200 with a body.
IsPage(resp) == resp.status = 200 /\ resp.raw_response # None

\* The URLs appended to url_queue by the step.
Appended == SubSeq(url_queue', Len(url_queue) + 1, Len(url_queue'))

\* Every URL in url_queue is accepted by is_valid, has no fragment, is in
\* visited_urls and occurs in the queue once.
C1_FrontierOK ==
  /\ \A i \in 1..Len(url_queue) :
       /\ is_valid(url_queue[i])
       /\ url_queue[i].fragment = ""
       /\ url_queue[i] \in visited_urls
  /\ \A i, j \in 1..Len(url_queue) :
       i # j => url_queue[i] # url_queue[j]

\* A step only appends to url_queue, and each URL it appends is valid and
\* was absent from visited_urls before the step.
C1_AppendOK ==
  /\ Len(url_queue') >= Len(url_queue)
  /\ SubSeq(url_queue', 1, Len(url_queue)) = url_queue
  /\ \A k \in 1..Len(Appended) :
       is_valid(Appended[k]) /\ Appended[k] \notin visited_urls

\* C1: a URL is appended to url_queue only if is_valid accepts it and it
\* was absent from visited_urls; no URL is in the queue twice, and every
\* URL in the queue is fragment-free and a member of visited_urls.
C1_Frontier == []C1_FrontierOK /\ [][C1_AppendOK]_vars

\* C1 witness: a page that links to /x.html twice (once with a fragment) and
\* to itself has been accepted, and the queue holds /x.html once.
C1_Witness ==
  /\ Returned /\ last.outcome = "accepted"
  /\ last.url = UrlDir
  /\ last.resp.raw_response.content.anchors = "fragments"
  /\ last.result = <<UrlX, UrlX, UrlDir>>
  /\ url_queue = <<UrlX>>

\* C2 (as claimed): the list an accepted page returns is the list of URLs
\* the call appended to url_queue.
C2_ReturnsAppended ==
  [][(last'.op = "scraper" /\ last.op = "none" /\ ~last'.raised
      /\ last'.outcome = "accepted")
     => last'.result = Appended]_vars

\* C3 (as claimed): can_fetch returns true for a URL whose robots.txt fetch
\* has failed, on the call that fetched and on every later call.
C3_FailOpen ==
  (last.op = "can_fetch" /\ robots_key(last.url) \in robots_failed)
    => last.ret

\* No robots.txt has been fetched twice.
C4_FetchedOnce ==
  \A key \in DOMAIN robots_fetches : robots_fetches[key] <= 1

\* A step keeps every entry of the robots cache as it is, and a call for a
\* cached key fetches nothing.
C4_CacheKept ==
  /\ \A key \in DOMAIN robots_parsers :
       /\ key \in DOMAIN robots_parsers'
       /\ robots_parsers'[key] = robots_parsers[key]
  /\ (last'.op = "can_fetch" /\ last.op = "none"
      /\ robots_key(last'.url) \in DOMAIN robots_parsers)
       => ~last'.fetched /\ robots_fetches' = robots_fetches

\* C4: the robots.txt of a key is fetched at most once, whether the fetch
\* succeeded or failed; an entry of the robots cache is never removed or
\* replaced, and a later call for the origin fetches nothing.
C4_RobotsCache == []C4_FetchedOnce /\ [][C4_CacheKept]_vars

\* C4 witness: a second call for an origin whose fetch had failed.
C4_Witness ==
  /\ last.op = "can_fetch" /\ ~last.fetched
  /\ robots_key(last.url) \in robots_failed
  /\ robots_fetches[robots_key(last.url)] = 1

\* The response is a redirect whose Location header is among `locations`.
IsRedirectTo(resp, locations) ==
  /\ 300 <= resp.status /\ resp.status <= 399
  /\ resp.raw_response # None
  /\ resp.raw_response.headers.Location \in locations

\* The step is a scraper() call, past the robots gate, on a redirect with a
\* Location header among `locations`: it returns that header alone and
\* leaves the crawl state and the checkpoint file as they were.
RedirectStep(locations) ==
  (last'.op = "scraper" /\ last.op = "none" /\ last'.outcome # "robots"
   /\ IsRedirectTo(last'.resp, locations))
  => /\ ~last'.raised
     /\ last'.result = <<last'.resp.raw_response.headers.Location>>
     /\ UNCHANGED <<visited_urls, visited_hashes, word_counts, subdomains,
                    longest_page, url_queue, log_file>>

\* C5 (as claimed): a redirect that carries a Location header L returns [L]
\* and changes nothing.
C5_AnyLocation == [][RedirectStep(Locations \ {None})]_vars

\* C5 (amended): a redirect that carries a non-empty Location header L
\* returns [L] and changes nothing.
C5_Redirect == [][RedirectStep(Locations \ {None, EmptyString})]_vars

\* C5 witness: after a page was accepted, a redirect to the relative
\* location /x.html has returned it as it came.
C5_Witness ==
  /\ Returned
  /\ IsRedirectTo(last.resp, {HrefX})
  /\ last.result = <<HrefX>>
  /\ visited_urls # {} /\ log_file # None

\* The call in `call`, made with the fingerprints `hashes` stored, met one
\* of the conditions on which scraper() rejects: the robots gate denied
\* it, or the status is 600..699, or it is a redirect whose Location header
\* is absent or empty, or another response that is not a page, or a page
\* that is too large, on a trap URL, a near-duplicate, or low in content.
\* (A redirect status without a raw response is the case of C7.)
MetRejection(call, hashes) ==
  LET status == call.resp.status
      raw    == call.resp.raw_response
  IN  \/ call.outcome = "robots"
      \/ 600 <= status /\ status < 700
      \/ IsRedirectTo(call.resp, {None, EmptyString})
      \/ /\ ~(300 <= status /\ status <= 399)
         /\ ~IsPage(call.resp)
      \/ /\ IsPage(call.resp)
         /\ \/ raw.content.size > MAX_PAGE_SIZE
            \/ is_trap(call.url)
            \/ \E old_hash \in hashes :
                 simhash_diff(SimhashOfText[raw.content.text], old_hash)
                   < SIMILARITY_THRESHOLD
            \/ Len(get_text(raw.content)) < MIN_WORD_COUNT

HasMalformedHref(resp) ==
  /\ resp.raw_response # None
  /\ extract_raises(AnchorsOf(resp.raw_response.content.anchors))

\* C7 (as claimed): whatever the status, with or without a raw response and
\* a Location header, scraper() raises nothing; a redirect status without
\* a raw response is rejected with the empty list.  (Pages with a
\* malformed href are left to C17.)
C7_NeverRaises ==
  (last.op = "scraper" /\ ~HasMalformedHref(last.resp)) =>
    /\ ~last.raised
    /\ (/\ 300 <= last.resp.status /\ last.resp.status <= 399
        /\ last.resp.raw_response = None)
         => last.result = <<>>

\* The step is a scraper() call on a page whose count (by `count`, a table
\* over the texts) is below the threshold: it returns the empty list and
\* leaves word_counts alone.
LowCountStep(count) ==
  (last'.op = "scraper" /\ last.op = "none" /\ IsPage(last'.resp)
   /\ count[last'.resp.raw_response.content.text] < MIN_WORD_COUNT)
  => /\ ~last'.raised
     /\ last'.result = <<>>
     /\ word_counts' = word_counts

\* C8 (as claimed): a page with fewer than 50 stopword-filtered tokens
\* yields no links and leaves word_counts alone.
C8_FilteredCount ==
  [][LowCountStep([t \in TextNames |-> Len(TokensOfText[t])])]_vars

\* C8 (amended): a page with fewer than 50 whitespace-separated words
\* yields no links and leaves word_counts alone.
C8_SplitCount ==
  [][LowCountStep([t \in TextNames |-> Len(TextOf(t))])]_vars

\* C8 witness: a page of 10 words that hold 60 tokens, none a stopword, was
\* rejected as low content after another page had been counted.
C8_Witness ==
  /\ Returned /\ last.outcome = "low_content"
  /\ last.resp.raw_response.content.text = "E"
  /\ Len(TokensOfText["E"]) >= MIN_WORD_COUNT
  /\ DOMAIN word_counts # {}

\* C9 (as claimed): visited_hashes holds only fingerprints of accepted
\* pages.
C9_OnlyAccepted == visited_hashes \subseteq accepted_hashes

\* The call in `call` was on a page that got as far as is_similar().
ReachedIsSimilar(call) ==
  /\ call.outcome # "robots"
  /\ IsPage(call.resp)
  /\ call.resp.raw_response.content.size <= MAX_PAGE_SIZE
  /\ ~is_trap(call.url)

\* C10: a page whose fingerprint is nearer than 5 bits to that of an
\* accepted page yields the empty list and changes no statistics; a page
\* that reaches the duplicate check with a fingerprint 5 bits or more from
\* every stored one is not rejected as a duplicate and its fingerprint is
\* stored.
C10_NearDuplicates ==
  [][(last'.op = "scraper" /\ last.op = "none" /\ IsPage(last'.resp))
     => LET page_hash ==
              SimhashOfText[last'.resp.raw_response.content.text]
        IN  /\ (\E f \in accepted_hashes : simhash_diff(page_hash, f) < 5)
                 => /\ ~last'.raised
                    /\ last'.result = <<>>
                    /\ UNCHANGED <<visited_urls, url_queue, word_counts,
                                   subdomains, longest_page, log_file>>
            /\ (/\ ReachedIsSimilar(last')
                /\ \A f \in visited_hashes : simhash_diff(page_hash, f) >= 5)
                 => /\ last'.outcome # "duplicate"
                    /\ page_hash \in visited_hashes']_vars

\* C10 witness: TextA was accepted; TextD, whose fingerprint differs from
\* TextA's in 2 bits, was then rejected as a duplicate.
C10_Witness ==
  /\ Returned /\ last.outcome = "duplicate"
  /\ last.resp.raw_response.content.text = "D"
  /\ SimhashOfText["A"] \in accepted_hashes
  /\ simhash_diff(SimhashOfText["D"], SimhashOfText["A"]) = 2
  /\ SimhashOfText["D"] \notin visited_hashes

\* longest_page is (None, 0) while no page was accepted; afterwards it is
\* (u, n) for an accepted page u whose count (by `count`, a table over the
\* texts) is n, and no accepted page has a larger count.
LongestIsMax(count) ==
  IF accepted_pages = {} THEN longest_page = <<None, 0>>
  ELSE /\ \E page \in accepted_pages :
            longest_page = <<page.url, count[page.text]>>
       /\ \A page \in accepted_pages : count[page.text] <= longest_page[2]

\* C11 (as claimed): longest_page is (u, n) where n is the stopword-filtered
\* token count of accepted page u and the largest such count over the
\* accepted pages.
C11_FilteredMax == LongestIsMax(WordCountOfText_tokens)

\* A step changes longest_page only by an accepted page whose number of
\* whitespace-separated words exceeds the recorded count, and to that page
\* and number.
C11_ChangeRule ==
  longest_page' # longest_page =>
    /\ last'.op = "scraper" /\ last'.outcome = "accepted"
    /\ WordCountOfText[last'.resp.raw_response.content.text] > longest_page[2]
    /\ longest_page' =
         <<last'.url, WordCountOfText[last'.resp.raw_response.content.text]>>

\* C11 (amended): longest_page is (u, n) where n is the number of
\* whitespace-separated words of accepted page u and the largest such
\* number over the accepted pages; the record changes only when a new
\* accepted page's number strictly exceeds n (a tie keeps the earlier
\* page).
C11_SplitMax ==
  []LongestIsMax(WordCountOfText) /\ [][C11_ChangeRule]_vars

\* C11 witness: a second page of 50 words was accepted at another URL and
\* the record stayed with the first page of 50 words.
C11_Witness ==
  /\ Returned /\ last.outcome = "accepted"
  /\ WordCountOfText[last.resp.raw_response.content.text] = 50
  /\ longest_page[2] = 50
  /\ longest_page[1] # last.url
  /\ Cardinality(accepted_pages) = 2

\* The distinct URLs with host `host` among the accepted pages.
AcceptedURLsOf(host) ==
  {page.url : page \in {q \in accepted_pages : q.url.netloc = host}}

\* C12 (as claimed): subdomains[h] is the number of distinct URLs with host
\* h that were accepted, a URL first met as a link on an earlier page
\* included; hosts without an accepted page have no counter.
C12_SubdomainCounts ==
  /\ DOMAIN subdomains = {page.url.netloc : page \in accepted_pages}
  /\ \A host \in DOMAIN subdomains :
       subdomains[host] = Cardinality(AcceptedURLsOf(host))

\* C13: in every reachable state, what save_log writes, loaded by load_log
\* into the globals of a fresh process, gives visited_urls, word_counts,
\* subdomains and longest_page as they were when written.
C13_RoundTrip ==
  load_log(FreshGlobals,
           save_log(visited_urls, word_counts, subdomains, longest_page))
    = CurrentGlobals

\* C13 witness: a fresh process has loaded the checkpoint of a process
\* that accepted a page, and holds what that process had written.
C13_Witness ==
  /\ last.op = "load_log" /\ last.fresh
  /\ IsComplete(log_file)
  /\ visited_urls # {} /\ DOMAIN word_counts # {} /\ DOMAIN subdomains # {}
  /\ longest_page[2] = 50
  /\ log_file = save_log(visited_urls, word_counts, subdomains, longest_page)

\* The step is a call of load_log().
LoadStep == last'.op = "load_log" /\ last.op = "none"

\* What a complete checkpoint file holds, as Python values.
Held(file) == load_log(FreshGlobals, file)

\* The counts of two tables added up, key by key.
SumOf(counts, other) ==
  [key \in DOMAIN counts \cup DOMAIN other |->
     (IF key \in DOMAIN counts THEN counts[key] ELSE 0)
     + (IF key \in DOMAIN other THEN other[key] ELSE 0)]

\* C14 (as claimed): load_log of a complete checkpoint leaves visited_urls
\* the union of the prior set and the file's URLs, every word count and
\* subdomain count the sum of the prior count and the file's, and
\* longest_page the one of the prior record and the file's with the larger
\* word count; no URL is lost and no count decreases.
C14_Merges ==
  [][(LoadStep /\ IsComplete(log_file)) =>
       /\ visited_urls' = visited_urls \cup Held(log_file).visited_urls
       /\ word_counts' = SumOf(word_counts, Held(log_file).word_counts)
       /\ subdomains' = SumOf(subdomains, Held(log_file).subdomains)
       /\ longest_page' \in {longest_page, Held(log_file).longest_page}
       /\ longest_page'[2] >= longest_page[2]
       /\ longest_page'[2] >= Held(log_file).longest_page[2]]_vars

\* C15 (as claimed): load_log on a file that is no JSON, or a JSON object
\* that lacks one of the four keys, raises nothing and leaves
\* visited_urls, word_counts, subdomains and longest_page as they were.
C15_StartsFresh ==
  [][(LoadStep /\ log_file # None /\ ~IsComplete(log_file)) =>
       /\ ~last'.raised
       /\ UNCHANGED <<visited_urls, word_counts, subdomains,
                      longest_page>>]_vars

\* The host is one of the four domains or ends with "." and one of them.
HostAllowed(netloc) ==
  \E domain \in allowed_domains :
    netloc = domain \/ endswith(netloc, domain)

\* The links of the page of `call`, resolved and defragmented.
LinksOf(call) ==
  extract_next_links(call.url,
                     AnchorsOf(call.resp.raw_response.content.anchors))

\* C16 (as claimed): of the http/https links of an accepted page whose path
\* extension is not denied, is_valid keeps exactly those whose host is one
\* of ics.uci.edu, cs.uci.edu, informatics.uci.edu, stat.uci.edu or a
\* subdomain of one: the bare host ics.uci.edu is kept, notics.uci.edu is
\* not.
C16_HostRule ==
  (Returned /\ last.outcome = "accepted") =>
    \A i \in DOMAIN LinksOf(last) :
      LET link == LinksOf(last)[i]
      IN  (link.scheme \in {"http", "https"}
           /\ ~has_denied_extension(link.path))
          => ((\E k \in DOMAIN last.result : last.result[k] = link)
              <=> HostAllowed(link.netloc))

\* The hrefs of the page of `call` that are not malformed.
WellFormedHrefs(call) ==
  SelectSeq(AnchorsOf(call.resp.raw_response.content.anchors),
            LAMBDA href : ~IsMalformed(href))

\* C17 (as claimed): an accepted page with a malformed href raises
\* nothing; its other links that are valid are returned and are in
\* visited_urls, and the checkpoint holds the state after the call.
C17_MalformedIsInvalid ==
  (last.op = "scraper" /\ last.outcome = "accepted"
   /\ HasMalformedHref(last.resp)) =>
    /\ ~last.raised
    /\ last.result =
         SelectSeq(extract_next_links(last.url, WellFormedHrefs(last)),
                   is_valid)
    /\ \A k \in DOMAIN last.result : last.result[k] \in visited_urls
    /\ log_file =
         save_log(visited_urls, word_counts, subdomains, longest_page)

\* C18 (as claimed): once a call has written the checkpoint, whenever a
\* scraper() call returns (accepted, rejected or redirect) the file holds
\* the current visited_urls, word_counts, subdomains and longest_page.
C18_CheckpointCurrent ==
  (Returned /\ log_file # None) =>
    log_file = save_log(visited_urls, word_counts, subdomains, longest_page)

\* C19 (as claimed): with scraper() calls interleaved statement by
\* statement, no URL is appended to url_queue twice.
C19_InsertIfAbsent ==
  \A i, j \in DOMAIN url_queue : i # j => url_queue[i] # url_queue[j]

\* Any two distinct fingerprints in visited_hashes differ in 5 bits or
\* more.
C20_FarApart ==
  \A f, g \in visited_hashes : f # g => simhash_diff(f, g) >= 5

\* C20: any two distinct fingerprints stored in visited_hashes have Hamming
\* distance >= 5, and no step of the pipeline removes a fingerprint.
C20_Fingerprints ==
  []C20_FarApart /\ [][visited_hashes \subseteq visited_hashes']_vars

\* C20 witness: the fingerprints of two pages that differ in exactly 5 bits
\* are both stored, the second by the last call.
C20_Witness ==
  /\ Returned /\ last.outcome = "accepted"
  /\ last.resp.raw_response.content.text = "D"
  /\ visited_hashes = {SimhashOfText["C"], SimhashOfText["D"]}
  /\ simhash_diff(SimhashOfText["C"], SimhashOfText["D"]) = 5

====
